---------------------------- MODULE Spec2Model ----------------------------
(***************************************************************************)
(* A model of jsondiff (src/src/jsondiff/jsondiff.py): the JSONDiffWatcher *)
(* filters (_apply_path_filter, _find_and_filter_key, filter_json), the    *)
(* structural diff it asks of DeepDiff, display_diff and the run loop with *)
(* its on-disk mirror of the previous document.                            *)
(*                                                                         *)
(* Python values are tagged records [t, v]:                                *)
(*   None / JSON null  [t |-> "null", v |-> 0]                             *)
(*   bool              [t |-> "bool", v |-> TRUE]                          *)
(*   int               [t |-> "num",  v |-> 1]                             *)
(*   str               [t |-> "str",  v |-> <<"o","n">>]  (a char sequence)*)
(*   list              [t |-> "arr",  v |-> <<e1, ..., en>>]               *)
(*   dict              [t |-> "obj",  v |-> << <<k1,v1>>, ..., <<kn,vn>> >>]*)
(* A dict keeps its insertion order, as a Python dict does; its keys are   *)
(* distinct char sequences.  Python's None is the value json gives for the *)
(* JSON document `null`, so both are the one value None.                   *)
(***************************************************************************)
EXTENDS Integers, Sequences, FiniteSets, TLC

VARIABLES
    filter_path,      \* self.filter_path: None or a str
    filter_key,       \* self.filter_key: None or a str
    filter_value,     \* self.filter_value: None or a str
    show_only_diffs,  \* self.show_only_diffs
    previous_data,    \* self.previous_data
    storage_file,     \* the file self.storage_file names: [st, data]
    current_data,     \* run's local current_data
    pc,               \* where run() stands
    console,          \* the last panel or line display_diff printed
    last_ok,          \* history: the raw value of the last successful fetch (or the load)
    stop_pc,          \* history: where run() stood when KeyboardInterrupt arrived
    call              \* the last direct call of a method: [fn, data, other, ret]

vars == <<filter_path, filter_key, filter_value, show_only_diffs, previous_data,
          storage_file, current_data, pc, console, last_ok, stop_pc, call>>

config == <<filter_path, filter_key, filter_value, show_only_diffs>>

loopvars == <<previous_data, storage_file, current_data, pc, console, last_ok, stop_pc>>

----------------------------------------------------------------------------
(* Python values *)

None == [t |-> "null", v |-> 0]

JBool(b) == [t |-> "bool", v |-> b]

JNum(n) == [t |-> "num", v |-> n]

JStr(s) == [t |-> "str", v |-> s]

JArr(s) == [t |-> "arr", v |-> s]

JObj(s) == [t |-> "obj", v |-> s]

EmptyObj == JObj(<< >>)

IsList(x) == x.t = "arr"

IsDict(x) == x.t = "obj"

\* bool(x): Python truthiness, as `if x:` tests it
Truthy(x) ==
    CASE x.t = "null" -> FALSE
      [] x.t = "bool" -> x.v
      [] x.t = "num"  -> x.v # 0
      [] OTHER        -> Len(x.v) > 0

\* key in d
HasKey(d, k) == \E i \in 1..Len(d.v) : d.v[i][1] = k

\* d[k], for a key d holds
Item(d, k) == d.v[CHOOSE i \in 1..Len(d.v) : d.v[i][1] = k][2]

\* d.get(k, default)
DictGet(d, k, default) == IF HasKey(d, k) THEN Item(d, k) ELSE default

----------------------------------------------------------------------------
(* Python str operations, on char sequences *)

\* c in s
HasChar(s, c) == \E i \in 1..Len(s) : s[i] = c

\* s.index(c), 0-based, for a c that s holds
IndexOf(s, c) == CHOOSE i \in 0..(Len(s) - 1) :
                    s[i + 1] = c /\ \A j \in 1..i : s[j] # c

\* s[a:b] for 0 <= a and 0 <= b <= len(s); empty when a >= b
Slice(s, a, b) == IF a >= b THEN << >> ELSE SubSeq(s, a + 1, b)

RECURSIVE SplitDot(_)
\* s.split(".")
SplitDot(s) ==
    IF ~HasChar(s, ".") THEN <<s>>
    ELSE LET i == IndexOf(s, ".")
         IN  <<Slice(s, 0, i)>> \o SplitDot(Slice(s, i + 1, Len(s)))

Digits == <<"0", "1", "2", "3", "4", "5", "6", "7", "8", "9">>

IsDigit(c) == \E d \in 1..10 : Digits[d] = c

DigitVal(c) == (CHOOSE d \in 1..10 : Digits[d] = c) - 1

RECURSIVE StripLeft(_)
StripLeft(s) == IF s # << >> /\ Head(s) = " " THEN StripLeft(Tail(s)) ELSE s

RECURSIVE StripRight(_)
StripRight(s) ==
    IF s # << >> /\ s[Len(s)] = " " THEN StripRight(SubSeq(s, 1, Len(s) - 1)) ELSE s

RECURSIVE DigitsVal(_)
DigitsVal(s) ==
    IF s = << >> THEN 0 ELSE 10 * DigitsVal(SubSeq(s, 1, Len(s) - 1)) + DigitVal(s[Len(s)])

\* int(s): [ok |-> FALSE] stands for ValueError.  Surrounding blanks and one
\* sign are accepted, then one or more decimal digits.
PyInt(s) ==
    LET body   == StripRight(StripLeft(s))
        signed == body # << >> /\ Head(body) \in {"-", "+"}
        digs   == IF signed THEN Tail(body) ELSE body
    IN  IF digs # << >> /\ \A i \in 1..Len(digs) : IsDigit(digs[i])
        THEN [ok |-> TRUE,
              n  |-> IF signed /\ Head(body) = "-" THEN 0 - DigitsVal(digs)
                     ELSE DigitsVal(digs)]
        ELSE [ok |-> FALSE, n |-> 0]

RECURSIVE NatStr(_)
NatStr(n) == IF n < 10 THEN <<Digits[n + 1]>> ELSE NatStr(n \div 10) \o <<Digits[(n % 10) + 1]>>

IntStr(n) == IF n < 0 THEN <<"-">> \o NatStr(0 - n) ELSE NatStr(n)

RECURSIVE PyRepr(_)
RECURSIVE ReprItems(_)
RECURSIVE ReprPairs(_)
\* repr(x)
PyRepr(x) ==
    CASE x.t = "null" -> <<"N", "o", "n", "e">>
      [] x.t = "bool" -> IF x.v THEN <<"T", "r", "u", "e">> ELSE <<"F", "a", "l", "s", "e">>
      [] x.t = "num"  -> IntStr(x.v)
      [] x.t = "str"  -> <<"'">> \o x.v \o <<"'">>
      [] x.t = "arr"  -> <<"[">> \o ReprItems(x.v) \o <<"]">>
      [] x.t = "obj"  -> <<"{">> \o ReprPairs(x.v) \o <<"}">>

ReprItems(s) ==
    IF s = << >> THEN << >>
    ELSE PyRepr(Head(s)) \o (IF Len(s) > 1 THEN <<",", " ">> ELSE << >>) \o ReprItems(Tail(s))

ReprPairs(s) ==
    IF s = << >> THEN << >>
    ELSE <<"'">> \o Head(s)[1] \o <<"'", ":", " ">> \o PyRepr(Head(s)[2])
         \o (IF Len(s) > 1 THEN <<",", " ">> ELSE << >>) \o ReprPairs(Tail(s))

\* str(x): a str is itself, anything else prints as its repr
PyStr(x) == IF x.t = "str" THEN x.v ELSE PyRepr(x)

----------------------------------------------------------------------------
(* What a call gives: a value, or an exception that leaves the callee *)

Return(x) == [k |-> "return", val |-> x]

Raise == [k |-> "raise", val |-> None]

Continue(x) == [k |-> "continue", val |-> x]

----------------------------------------------------------------------------
(* JSONDiffWatcher._apply_path_filter *)

\* One pass of the loop body `for part in parts:` on the current result:
\* Continue(r) goes on to the next part with result r, Return(r) is the
\* method's `return r`, Raise is the AttributeError of `result.get` on a
\* result that is no dict (a list, a str, a number, a bool or None).
PathStep(result, part) ==
    IF HasChar(part, "[") /\ HasChar(part, "]")
    THEN LET lb         == IndexOf(part, "[")
             rb         == IndexOf(part, "]")
             key        == Slice(part, 0, lb)
             index_part == Slice(part, lb + 1, rb)
             keyed      == IF key # << >> THEN DictGet(result, key, EmptyObj) ELSE result
             idx        == PyInt(index_part)
         IN  IF key # << >> /\ ~IsDict(result) THEN Raise
             ELSE IF index_part = <<"*">>
                  THEN IF IsList(keyed) THEN Continue(keyed) ELSE Return(EmptyObj)
                  ELSE IF ~idx.ok THEN Return(EmptyObj)
                       ELSE IF IsList(keyed) /\ 0 <= idx.n /\ idx.n < Len(keyed.v)
                            THEN Continue(keyed.v[idx.n + 1])
                            ELSE Return(EmptyObj)
    ELSE IF IsDict(result) THEN Continue(DictGet(result, part, EmptyObj))
         ELSE Return(EmptyObj)

RECURSIVE PathLoop(_, _)
\* the loop over the remaining parts, then `return result`
PathLoop(result, parts) ==
    IF parts = << >> THEN Return(result)
    ELSE LET r == PathStep(result, Head(parts))
         IN  IF r.k = "continue" THEN PathLoop(r.val, Tail(parts)) ELSE r

\* _apply_path_filter(data, path)
ApplyPathFilter(data, path) == PathLoop(data, SplitDot(path))

----------------------------------------------------------------------------
(* JSONDiffWatcher._find_and_filter_key *)

\* `value is None or str(x) == value`
ValueMatches(x, value) == value = None \/ PyStr(x) = value.v

RECURSIVE FindAndFilterKey(_, _, _)
RECURSIVE FindInItems(_, _, _)
RECURSIVE FindInList(_, _, _)
\* _find_and_filter_key(data, key, value): a dict, a list or None
FindAndFilterKey(data, key, value) ==
    IF IsDict(data)
    THEN IF HasKey(data, key) /\ ValueMatches(Item(data, key), value)
         THEN JObj(<< <<key, Item(data, key)>> >>)
         ELSE LET result == FindInItems(data.v, key, value)
              IN  IF result # << >> THEN JObj(result) ELSE None
    ELSE IF IsList(data)
         THEN LET result == FindInList(data.v, key, value)
              IN  IF result # << >> THEN JArr(result) ELSE None
         ELSE None

\* `for k, v in data.items(): ... if filtered: result[k] = filtered`
FindInItems(items, key, value) ==
    IF items = << >> THEN << >>
    ELSE LET filtered == FindAndFilterKey(Head(items)[2], key, value)
         IN  (IF Truthy(filtered) THEN << <<Head(items)[1], filtered>> >> ELSE << >>)
             \o FindInItems(Tail(items), key, value)

\* `for item in data: ... if filtered: result.append(filtered)`
FindInList(items, key, value) ==
    IF items = << >> THEN << >>
    ELSE LET filtered == FindAndFilterKey(Head(items), key, value)
         IN  (IF Truthy(filtered) THEN <<filtered>> ELSE << >>)
             \o FindInList(Tail(items), key, value)

----------------------------------------------------------------------------
(* JSONDiffWatcher.filter_json *)

RECURSIVE KeyFilterList_NoStr(_, _, _)
\* the list branch with `item[key] == value` in place of `str(item[key]) == value`
KeyFilterList_NoStr(items, key, value) ==
    IF items = << >> THEN << >>
    ELSE (IF IsDict(Head(items)) /\ HasKey(Head(items), key)
             /\ (value = None \/ Item(Head(items), key) = value)
          THEN <<Head(items)>> ELSE << >>)
         \o KeyFilterList_NoStr(Tail(items), key, value)

RECURSIVE KeyFilterList(_, _, _)
\* the list branch: `for item in result:` appending the dicts that hold the
\* key and, when a value is set, whose str() at the key equals it
KeyFilterList(items, key, value) ==
    IF items = << >> THEN << >>
    ELSE (IF IsDict(Head(items)) /\ HasKey(Head(items), key)
             /\ ValueMatches(Item(Head(items), key), value)
          THEN <<Head(items)>> ELSE << >>)
         \o KeyFilterList(Tail(items), key, value)

\* the dict branch
KeyFilterDict(result, key, value) ==
    IF HasKey(result, key)
    THEN IF ValueMatches(Item(result, key), value)
         THEN JObj(<< <<key, Item(result, key)>> >>)
         ELSE EmptyObj
    ELSE FindAndFilterKey(result, key, value)

\* the key-value filtering of filter_json on `result`; a result that is
\* neither a list nor a dict is returned as it is
KeyFilter(result, fkey, fvalue) ==
    IF Truthy(fkey) /\ IsList(result) THEN JArr(KeyFilterList(result.v, fkey.v, fvalue))
    ELSE IF Truthy(fkey) /\ IsDict(result) THEN KeyFilterDict(result, fkey.v, fvalue)
         ELSE result

\* `result` after the path filtering of filter_json: a Return or the Raise
\* of _apply_path_filter
PathFiltered(data, fpath) ==
    IF Truthy(fpath) THEN ApplyPathFilter(data, fpath.v) ELSE Return(data)

\* filter_json(data) of a watcher configured with fpath, fkey, fvalue
FilterJson(data, fpath, fkey, fvalue) ==
    IF ~(Truthy(fpath) \/ Truthy(fkey)) THEN Return(data)
    ELSE LET mid == PathFiltered(data, fpath)
         IN  IF mid.k = "raise" THEN Raise
             ELSE Return(KeyFilter(mid.val, fkey, fvalue))

----------------------------------------------------------------------------
(* DeepDiff(t1, t2, ignore_order=False, verbose_level=2), as display_diff   *)
(* calls it.  The comparison is the deepdiff library's, whose source is not *)
(* among the repository's files; DiffAt follows the DiffEngine of the       *)
(* specification (4.4) and the library's documented result: a difference    *)
(* of type is a type_changes entry, dicts are compared key by key, lists    *)
(* position by position.  An entry is [bucket, path, old, new]; a path is   *)
(* the sequence of dict keys (str) and list positions (int) from the root.  *)

KeySet(d) == {d.v[i][1] : i \in 1..Len(d.v)}

Min(a, b) == IF a < b THEN a ELSE b

Entry(bucket, path, old, new) == [bucket |-> bucket, path |-> path, old |-> old, new |-> new]

RECURSIVE DiffAt(_, _, _)
DiffAt(t1, t2, path) ==
    IF t1.t # t2.t THEN {Entry("type_changes", path, t1, t2)}
    ELSE IF IsDict(t1)
    THEN {Entry("dictionary_item_added", Append(path, JStr(k)), None, Item(t2, k)) :
              k \in KeySet(t2) \ KeySet(t1)}
         \cup {Entry("dictionary_item_removed", Append(path, JStr(k)), Item(t1, k), None) :
              k \in KeySet(t1) \ KeySet(t2)}
         \cup UNION {DiffAt(Item(t1, k), Item(t2, k), Append(path, JStr(k))) :
              k \in KeySet(t1) \cap KeySet(t2)}
    ELSE IF IsList(t1)
    THEN UNION {DiffAt(t1.v[i], t2.v[i], Append(path, JNum(i - 1))) :
              i \in 1..Min(Len(t1.v), Len(t2.v))}
         \cup {Entry("iterable_item_added", Append(path, JNum(i - 1)), None, t2.v[i]) :
              i \in (Len(t1.v) + 1)..Len(t2.v)}
         \cup {Entry("iterable_item_removed", Append(path, JNum(i - 1)), t1.v[i], None) :
              i \in (Len(t2.v) + 1)..Len(t1.v)}
    ELSE IF t1 # t2 THEN {Entry("values_changed", path, t1, t2)} ELSE {}

RECURSIVE SameItems(_, _)
\* whether two lists hold the same items, each as often, in any order
SameItems(s1, s2) ==
    IF s1 = << >> THEN s2 = << >>
    ELSE \E i \in 1..Len(s2) :
            /\ DiffAt(Head(s1), s2[i], << >>) = {}
            /\ SameItems(Tail(s1), SubSeq(s2, 1, i - 1) \o SubSeq(s2, i + 1, Len(s2)))

\* the call made with ignore_order=True: two root lists with the same items
\* in another order compare equal
DeepDiff_IgnoreOrder(t1, t2) ==
    IF IsList(t1) /\ IsList(t2) /\ SameItems(t1.v, t2.v) THEN {} ELSE DiffAt(t1, t2, << >>)

\* diff = DeepDiff(previous_filtered, current_filtered, ignore_order=False, verbose_level=2)
DeepDiff(t1, t2) == DiffAt(t1, t2, << >>)

----------------------------------------------------------------------------
(* JSONDiffWatcher.format_diff and display_diff *)

Rendered == {"dictionary_item_added", "dictionary_item_removed", "values_changed",
             "iterable_item_added", "iterable_item_removed"}

\* format_diff(diff): "" for an empty diff, else the header and one section
\* for each of the five buckets it reads
FormatDiff(diff) ==
    IF diff = {} THEN [text |-> FALSE, lines |-> {}]
    ELSE [text |-> TRUE, lines |-> {e \in diff : e.bucket \in Rendered}]

Shown(panel, prev, cur, diff, summary) ==
    [panel |-> panel, prev |-> prev, cur |-> cur, diff |-> diff, summary |-> summary]

Blank == Shown("none", None, None, {}, {})

\* display_diff from `if not diff:` on: the line or the panels printed for
\* previous_filtered, current_filtered and their diff
ShowChanges(pf, cf, diff, only) ==
    IF diff = {} THEN Shown("nochange", pf, cf, {}, {})
    ELSE IF only THEN Shown("differences", pf, cf, diff, FormatDiff(diff).lines)
         ELSE Shown("comparison", pf, cf, diff, FormatDiff(diff).lines)

\* display_diff from `if previous_filtered is None:` on; pf and cf are what
\* filter_json gave (a value or its exception)
ShowFiltered(pf, cf, only) ==
    IF cf.k = "raise" \/ pf.k = "raise" THEN [k |-> "raise", out |-> Blank]
    ELSE IF pf.val = None
         THEN [k |-> "return", out |-> Shown("initial", None, cf.val, {}, {})]
         ELSE [k |-> "return",
               out |-> ShowChanges(pf.val, cf.val, DeepDiff(pf.val, cf.val), only)]

\* display_diff(current, previous) of a watcher configured with fpath, fkey,
\* fvalue, only: what it printed, or the exception of filter_json
DisplayDiff(current, previous, fpath, fkey, fvalue, only) ==
    ShowFiltered(IF Truthy(previous) THEN FilterJson(previous, fpath, fkey, fvalue)
                 ELSE Return(None),
                 FilterJson(current, fpath, fkey, fvalue), only)

----------------------------------------------------------------------------
(* The documents, paths, keys and values the model runs on *)

\* the longest list, and the most keys of a dict, among the generated documents
MaxLen == 2

Str_a == <<"a">>

Str_b == <<"b">>

Str_c == <<"c">>

Str_s == <<"s">>

Str_w == <<"w">>

Str_x == <<"x">>

Str_on == <<"o", "n">>

Str_off == <<"o", "f", "f">>

Str_1 == <<"1">>

GenScalars == {None, JBool(TRUE), JNum(1), JStr(Str_on)}

GenKeys == {Str_a, Str_s}

GenLists == {JArr(s) : s \in UNION {[1..n -> GenScalars] : n \in 0..MaxLen}}

\* the dicts of up to MaxLen distinct keys of GenKeys, in every insertion order
GenDicts ==
    UNION {{JObj([i \in 1..n |-> <<ks[i], vs[i]>>]) :
               ks \in {q \in [1..n -> GenKeys] : \A i, j \in 1..n : q[i] = q[j] => i = j},
               vs \in [1..n -> GenScalars]} :
           n \in 0..MaxLen}

Pair(k, x) == <<k, x>>

\* {"a": {"b": [10, 20, 30]}}
DocAB == JObj(<<Pair(Str_a, JObj(<<Pair(Str_b, JArr(<<JNum(10), JNum(20), JNum(30)>>))>>))>>)

\* [{"a": 1, "s": "on"}, {"a": 2, "s": "off"}]
DocItems == JArr(<<JObj(<<Pair(Str_a, JNum(1)), Pair(Str_s, JStr(Str_on))>>),
                   JObj(<<Pair(Str_a, JNum(2)), Pair(Str_s, JStr(Str_off))>>)>>)

\* [{"s": "off"}, 1, {"s": "on"}, {"a": 1}, {"s": 1}]
DocMixed == JArr(<<JObj(<<Pair(Str_s, JStr(Str_off))>>), JNum(1),
                   JObj(<<Pair(Str_s, JStr(Str_on))>>), JObj(<<Pair(Str_a, JNum(1))>>),
                   JObj(<<Pair(Str_s, JNum(1))>>)>>)

\* {"w": {"s": "off", "c": {"s": "on"}}}
DocNested == JObj(<<Pair(Str_w, JObj(<<Pair(Str_s, JStr(Str_off)),
                                       Pair(Str_c, JObj(<<Pair(Str_s, JStr(Str_on))>>))>>))>>)

\* {"w": [{"s": "on"}, 1, {"x": {"s": "on"}}], "x": 1}
DocDeep == JObj(<<Pair(Str_w, JArr(<<JObj(<<Pair(Str_s, JStr(Str_on))>>), JNum(1),
                                     JObj(<<Pair(Str_x, JObj(<<Pair(Str_s, JStr(Str_on))>>))>>)>>)),
                  Pair(Str_x, JNum(1))>>)

\* {"a": [{"s": "on"}, {"s": "off"}]}
DocList == JObj(<<Pair(Str_a, JArr(<<JObj(<<Pair(Str_s, JStr(Str_on))>>),
                                     JObj(<<Pair(Str_s, JStr(Str_off))>>)>>))>>)

\* {"a": 1, "b": 2} and {"a": 1, "b": 3, "c": 4}
DocOld == JObj(<<Pair(Str_a, JNum(1)), Pair(Str_b, JNum(2))>>)

DocNew == JObj(<<Pair(Str_a, JNum(1)), Pair(Str_b, JNum(3)), Pair(Str_c, JNum(4))>>)

Picked == {DocAB, DocItems, DocMixed, DocNested, DocDeep, DocList, DocOld, DocNew,
           JArr(<<JNum(1), JNum(2)>>), JArr(<<JNum(2), JNum(1)>>),
           JArr(<<JNum(1), JNum(2), JNum(3)>>),
           JNum(0), JBool(FALSE), JStr(<< >>)}

\* the documents a method is called on
Docs == GenScalars \cup GenLists \cup GenDicts \cup Picked

\* the documents the endpoint serves to the run loop
FetchDocs == {None, EmptyObj, JNum(0), DocList, DocItems,
              JObj(<<Pair(Str_s, JStr(Str_on))>>)}

\* a.b[1]   a.b[*]   a.x[0]   a[z]   a[0]   a[-1]   a[5]   [0]   [*]   a   a[*].s   a]b[   a..b   w.c
Paths == {<<"a", ".", "b", "[", "1", "]">>, <<"a", ".", "b", "[", "*", "]">>,
          <<"a", ".", "x", "[", "0", "]">>, <<"a", "[", "z", "]">>,
          <<"a", "[", "0", "]">>, <<"a", "[", "-", "1", "]">>, <<"a", "[", "5", "]">>,
          <<"[", "0", "]">>, <<"[", "*", "]">>, <<"a">>,
          <<"a", "[", "*", "]", ".", "s">>, <<"a", "]", "b", "[">>,
          <<"a", ".", ".", "b">>, <<"w", ".", "c">>}

\* the --filter-path, --filter-key and --filter-value a watcher is made with
ConfigPaths == {None, JStr(<<"a", "[", "0", "]">>), JStr(<<"[", "*", "]">>), JStr(<<"w">>)}

ConfigKeys == {None, JStr(Str_s), JStr(Str_a)}

ConfigValues == {None, JStr(Str_on), JStr(Str_1)}

----------------------------------------------------------------------------
(* The storage file, save_previous and load_previous *)

Missing == [st |-> "missing", data |-> None]

\* a file cut short, or not JSON
Partial == [st |-> "partial", data |-> None]

Saved(x) == [st |-> "ok", data |-> x]

\* load_previous(): the parsed file; None when there is no file and, after a
\* warning, when it cannot be read or parsed
LoadPrevious(f) == IF f.st = "ok" THEN f.data ELSE None

NoCall == [fn |-> "none", data |-> None, other |-> None, ret |-> Return(None), diff |-> {}]

----------------------------------------------------------------------------
(* JSONDiffWatcher.__init__ *)

\* A watcher as constructed: nothing held, run() not entered.  The file is
\* whatever an earlier run left: none, a cut one, or a saved document (run
\* saves only what fetch_json gave that was not None).
Init ==
    /\ filter_path \in {None, JStr(<<"a", "[", "0", "]">>)}
    /\ filter_key \in {None, JStr(Str_s)}
    /\ filter_value \in {None, JStr(Str_on)}
    /\ show_only_diffs \in BOOLEAN
    /\ previous_data = None
    /\ storage_file \in {Missing, Partial} \cup {Saved(d) : d \in FetchDocs \ {None}}
    /\ current_data = None
    /\ pc = "new"
    /\ console = Blank
    /\ last_ok = None
    /\ stop_pc = "none"
    /\ call = NoCall

----------------------------------------------------------------------------
(* JSONDiffWatcher.run *)

\* the banner, then self.previous_data = self.load_previous()
Start ==
    /\ pc = "new"
    /\ previous_data' = LoadPrevious(storage_file)
    /\ last_ok' = LoadPrevious(storage_file)
    /\ pc' = "fetch"
    /\ UNCHANGED <<config, storage_file, current_data, console, stop_pc, call>>

\* fetch_json() answers with the document d the endpoint served (response.json());
\* run() then tests `current_data is None`, sleeps and continues
FetchOk ==
    /\ pc = "fetch"
    /\ \E d \in FetchDocs :
          /\ current_data' = d
          /\ last_ok' = d
          /\ pc' = IF d = None THEN "sleep" ELSE "display"
    /\ UNCHANGED <<config, previous_data, storage_file, console, stop_pc, call>>

\* fetch_json() catches a RequestException (connection, timeout, status) or a
\* JSONDecodeError, prints it and returns None
FetchFail ==
    /\ pc = "fetch"
    /\ \E e \in {"fetch_error", "parse_error"} : console' = Shown(e, None, None, {}, {})
    /\ current_data' = None
    /\ pc' = "sleep"
    /\ UNCHANGED <<config, previous_data, storage_file, last_ok, stop_pc, call>>

\* display_diff(current_data, self.previous_data), or (current_data, None) when
\* nothing is held; an exception of it is caught nowhere and ends run()
Display ==
    /\ pc = "display"
    /\ LET r == DisplayDiff(current_data, previous_data,
                            filter_path, filter_key, filter_value, show_only_diffs)
       IN  IF r.k = "raise"
           THEN pc' = "crashed" /\ UNCHANGED console
           ELSE pc' = "assign" /\ console' = r.out
    /\ UNCHANGED <<config, previous_data, storage_file, current_data, last_ok, stop_pc, call>>

\* self.previous_data = current_data
Assign ==
    /\ pc = "assign"
    /\ previous_data' = current_data
    /\ pc' = "save"
    /\ UNCHANGED <<config, storage_file, current_data, console, last_ok, stop_pc, call>>

\* save_previous: mkdir and open(storage_file, "w"), which empties the file
SaveOpen ==
    /\ pc = "save"
    /\ storage_file' = Partial
    /\ pc' = "dump"
    /\ UNCHANGED <<config, previous_data, current_data, console, last_ok, stop_pc, call>>

\* save_previous: mkdir or open fails; the exception is caught and warned of
SaveOpenFail ==
    /\ pc = "save"
    /\ console' = Shown("save_warning", None, None, {}, {})
    /\ pc' = "sleep"
    /\ UNCHANGED <<config, previous_data, storage_file, current_data, last_ok, stop_pc, call>>

\* save_previous: json.dump(data, f, indent=2) writes the document and the file closes
SaveDump ==
    /\ pc = "dump"
    /\ storage_file' = Saved(current_data)
    /\ pc' = "sleep"
    /\ UNCHANGED <<config, previous_data, current_data, console, last_ok, stop_pc, call>>

\* save_previous: the write fails part way; the exception is caught and warned of
SaveDumpFail ==
    /\ pc = "dump"
    /\ console' = Shown("save_warning", None, None, {}, {})
    /\ pc' = "sleep"
    /\ UNCHANGED <<config, previous_data, storage_file, current_data, last_ok, stop_pc, call>>

\* time.sleep(self.interval) returns
Sleep ==
    /\ pc = "sleep"
    /\ pc' = "fetch"
    /\ UNCHANGED <<config, previous_data, storage_file, current_data, console, last_ok,
                   stop_pc, call>>

InTry == {"fetch", "display", "assign", "save", "dump", "sleep"}

\* KeyboardInterrupt reaches the main thread wherever it stands inside the
\* try block; `except KeyboardInterrupt` prints "Stopped by user" and run() returns
Interrupt ==
    /\ pc \in InTry
    /\ stop_pc' = pc
    /\ pc' = "stopped"
    /\ UNCHANGED <<config, previous_data, storage_file, current_data, console, last_ok, call>>

Next ==
    \/ Start
    \/ FetchOk
    \/ FetchFail
    \/ Display
    \/ Assign
    \/ SaveOpen
    \/ SaveOpenFail
    \/ SaveDump
    \/ SaveDumpFail
    \/ Sleep
    \/ Interrupt

Spec == Init /\ [][Next]_vars

----------------------------------------------------------------------------
(* The methods called directly on a watcher that is not running *)

InitFilter ==
    /\ filter_path \in ConfigPaths
    /\ filter_key \in ConfigKeys
    /\ filter_value \in ConfigValues
    /\ show_only_diffs = FALSE
    /\ previous_data = None
    /\ storage_file = Missing
    /\ current_data = None
    /\ pc = "new"
    /\ console = Blank
    /\ last_ok = None
    /\ stop_pc = "none"
    /\ call = NoCall

\* self._apply_path_filter(d, p)
CallApplyPathFilter ==
    /\ call = NoCall
    /\ \E d \in Docs, p \in Paths :
          call' = [fn |-> "_apply_path_filter", data |-> d, other |-> JStr(p),
                   ret |-> ApplyPathFilter(d, p), diff |-> {}]
    /\ UNCHANGED <<config, loopvars>>

\* self.filter_json(d)
CallFilterJson ==
    /\ call = NoCall
    /\ \E d \in Docs :
          call' = [fn |-> "filter_json", data |-> d, other |-> None,
                   ret |-> FilterJson(d, filter_path, filter_key, filter_value), diff |-> {}]
    /\ UNCHANGED <<config, loopvars>>

NextFilter == CallApplyPathFilter \/ CallFilterJson

SpecFilter == InitFilter /\ [][NextFilter]_vars

InitDiff ==
    /\ filter_path = None
    /\ filter_key = None
    /\ filter_value = None
    /\ show_only_diffs = FALSE
    /\ previous_data = None
    /\ storage_file = Missing
    /\ current_data = None
    /\ pc = "new"
    /\ console = Blank
    /\ last_ok = None
    /\ stop_pc = "none"
    /\ call = NoCall

\* DeepDiff(a, b, ignore_order=False, verbose_level=2), as display_diff asks it
\* of previous_filtered and current_filtered
CallDeepDiff ==
    /\ call = NoCall
    /\ \E a \in Docs, b \in Docs :
          call' = [fn |-> "DeepDiff", data |-> b, other |-> a,
                   ret |-> Return(None), diff |-> DeepDiff(a, b)]
    /\ UNCHANGED <<config, loopvars>>

NextDiff == CallDeepDiff

SpecDiff == InitDiff /\ [][NextDiff]_vars

----------------------------------------------------------------------------
(* The watch loop: C1 - C4, under Spec *)

\* C1: at every tick boundary (run() is in its sleep) the held previous value
\* and the stored file both equal the raw value of the most recent successful
\* fetch, or the value loaded at the start when no fetch has succeeded yet.
C1_HeldAndMirrorAreLastFetch ==
    pc = "sleep" => previous_data = last_ok /\ LoadPrevious(storage_file) = last_ok

\* C2: on a tick whose fetch succeeded, whenever a previous value is held
\* (anything but None) the tick does not render "initial data" but presents
\* diff(project(heldPrevious), project(currentRaw)).
C2_HeldPreviousIsDiffed ==
    (pc = "assign" /\ previous_data # None) =>
        /\ console.panel # "initial"
        /\ console.diff =
               DeepDiff(FilterJson(previous_data, filter_path, filter_key, filter_value).val,
                        FilterJson(current_data, filter_path, filter_key, filter_value).val)

\* C3: the loop reaches a terminated state only through operator cancellation.
C3_OnlyCancellationTerminates ==
    pc \in {"stopped", "crashed"} => stop_pc # "none"

\* C4: cancellation is honored only between ticks (while the loop waits out its
\* interval), and on termination by cancellation the stored file is exactly the
\* held value.
C4_CancelledBetweenTicks ==
    pc = "stopped" => stop_pc = "sleep" /\ LoadPrevious(storage_file) = previous_data

----------------------------------------------------------------------------
(* PathFilter: C5, C6, under SpecFilter *)

\* C5: PathFilter never raises: for every document and every path string it
\* returns a value.
C5_PathFilterNeverRaises ==
    call.fn = "_apply_path_filter" => call.ret.k = "return"

\* A segment as the specification writes it: `field`, `field[N]`, `field[*]`,
\* `[N]` or `[*]`, N a decimal integer with an optional minus sign.
C6_Bracketed(part) == HasChar(part, "[")

C6_Field(part) == IF C6_Bracketed(part) THEN Slice(part, 0, IndexOf(part, "[")) ELSE part

C6_IndexText(part) == Slice(part, IndexOf(part, "[") + 1, Len(part) - 1)

C6_WellFormed(part) ==
    /\ ~HasChar(C6_Field(part), "]")
    /\ C6_Bracketed(part) =>
          /\ part[Len(part)] = "]"
          /\ ~HasChar(C6_IndexText(part), "[") /\ ~HasChar(C6_IndexText(part), "]")
          /\ \/ C6_IndexText(part) = <<"*">>
             \/ /\ C6_IndexText(part) # << >>
                /\ \A i \in 1..Len(C6_IndexText(part)) :
                      \/ IsDigit(C6_IndexText(part)[i])
                      \/ i = 1 /\ C6_IndexText(part)[i] = "-" /\ Len(C6_IndexText(part)) > 1
    /\ ~C6_Bracketed(part) => part # << >>

\* the field rule: the field's value of an Object that holds it, else the empty Object
C6_FieldRule(cur, f) == IF IsDict(cur) /\ HasKey(cur, f) THEN Item(cur, f) ELSE EmptyObj

\* the index rule: Wildcard passes an Array through, Exact(n) takes element n
\* of an Array with 0 <= n < length, anything else gives the empty Object
C6_IndexRule(cur, text) ==
    IF text = <<"*">> THEN (IF IsList(cur) THEN cur ELSE EmptyObj)
    ELSE LET n == IF Head(text) = "-" THEN 0 - DigitsVal(Tail(text)) ELSE DigitsVal(text)
         IN  IF IsList(cur) /\ 0 <= n /\ n < Len(cur.v) THEN cur.v[n + 1] ELSE EmptyObj

C6_SegmentRule(cur, part) ==
    IF C6_Bracketed(part)
    THEN C6_IndexRule(IF C6_Field(part) # << >> THEN C6_FieldRule(cur, C6_Field(part)) ELSE cur,
                      C6_IndexText(part))
    ELSE C6_FieldRule(cur, part)

RECURSIVE C6_Eval(_, _)
C6_Eval(cur, parts) ==
    IF parts = << >> THEN cur ELSE C6_Eval(C6_SegmentRule(cur, Head(parts)), Tail(parts))

C6_Applies ==
    /\ call.fn = "_apply_path_filter"
    /\ \A i \in 1..Len(SplitDot(call.other.v)) : C6_WellFormed(SplitDot(call.other.v)[i])

\* C6: PathFilter evaluates the segments left to right on the current result
\* seeded with the root, by the field rule and the index rule.
C6_PathFilterSemantics ==
    C6_Applies => call.ret = Return(C6_Eval(call.data, SplitDot(call.other.v)))

\* Whenever _apply_path_filter returns on a well-formed path, it returns what
\* the segment rules give.
PathFilterAgreesWhenItReturns ==
    (C6_Applies /\ call.ret.k = "return") =>
        call.ret.val = C6_Eval(call.data, SplitDot(call.other.v))

\* {"a":{"b":[10,20,30]}}: a.b[1] gives 20, a.b[*] gives [10,20,30], a.x[0] gives {}
PathFilterExamples ==
    /\ ApplyPathFilter(DocAB, <<"a", ".", "b", "[", "1", "]">>) = Return(JNum(20))
    /\ ApplyPathFilter(DocAB, <<"a", ".", "b", "[", "*", "]">>)
          = Return(JArr(<<JNum(10), JNum(20), JNum(30)>>))
    /\ ApplyPathFilter(DocAB, <<"a", ".", "x", "[", "0", "]">>) = Return(EmptyObj)

----------------------------------------------------------------------------
(* KeyFilter: C7, C8, C9, under SpecFilter *)

\* the value filter_json hands to its key-value filtering
Handed == PathFiltered(call.data, filter_path)

KeyFilterCalled ==
    call.fn = "filter_json" /\ Truthy(filter_key) /\ Handed.k = "return"

C7_Kept(e) ==
    /\ IsDict(e)
    /\ HasKey(e, filter_key.v)
    /\ filter_value # None => PyStr(Item(e, filter_key.v)) = filter_value.v

\* C7: KeyFilter applied to an Array returns exactly the subsequence of its
\* elements that are Objects holding the key whose stringified value at the
\* key equals the match value (when one is given), unmodified and in order.
C7_ArrayKeepsMatchingSubsequence ==
    (KeyFilterCalled /\ IsList(Handed.val)) =>
        call.ret = Return(JArr(SelectSeq(Handed.val.v, C7_Kept)))

\* [{"a":1,"s":"on"},{"a":2,"s":"off"}] with key s and value on gives [{"a":1,"s":"on"}]
C7_Witness ==
    /\ call.fn = "filter_json" /\ call.data = DocItems
    /\ filter_path = None /\ filter_key = JStr(Str_s) /\ filter_value = JStr(Str_on)
    /\ call.ret = Return(JArr(<<DocItems.v[1]>>))

RECURSIVE C8_Rule(_, _, _)
RECURSIVE C8_Children(_, _, _)
RECURSIVE C8_Elements(_, _, _)
\* the rule of C8 for a nested value: an Object holding the key contributes
\* the singleton when it matches and nothing when it does not; any other
\* Object or Array is rebuilt from its children's non-empty, non-absent results
C8_Rule(data, key, value) ==
    IF IsDict(data)
    THEN IF HasKey(data, key)
         THEN IF value = None \/ PyStr(Item(data, key)) = value.v
              THEN JObj(<< <<key, Item(data, key)>> >>)
              ELSE None
         ELSE LET kept == C8_Children(data.v, key, value)
              IN  IF kept # << >> THEN JObj(kept) ELSE None
    ELSE IF IsList(data)
         THEN LET kept == C8_Elements(data.v, key, value)
              IN  IF kept # << >> THEN JArr(kept) ELSE None
         ELSE None

C8_Children(items, key, value) ==
    IF items = << >> THEN << >>
    ELSE LET r == C8_Rule(Head(items)[2], key, value)
         IN  (IF r \notin {None, EmptyObj, JArr(<< >>)} THEN << <<Head(items)[1], r>> >> ELSE << >>)
             \o C8_Children(Tail(items), key, value)

C8_Elements(items, key, value) ==
    IF items = << >> THEN << >>
    ELSE LET r == C8_Rule(Head(items), key, value)
         IN  (IF r \notin {None, EmptyObj, JArr(<< >>)} THEN <<r>> ELSE << >>)
             \o C8_Elements(Tail(items), key, value)

\* C8: KeyFilter on an Object that does not hold the key directly applies the
\* rule to every child and keeps exactly the keys with a non-empty, non-absent
\* result; the result is absent when nothing matched.
C8_NestedSearch ==
    (KeyFilterCalled /\ IsDict(Handed.val) /\ ~HasKey(Handed.val, filter_key.v)) =>
        call.ret = Return(C8_Rule(Handed.val, filter_key.v, filter_value))

\* C9: when a key filter is set and the value handed to KeyFilter is neither
\* an Array nor an Object, the projection is absent, never the scalar itself.
C9_ScalarIsAbsent ==
    (KeyFilterCalled /\ ~IsList(Handed.val) /\ ~IsDict(Handed.val)) =>
        call.ret = Return(None)

----------------------------------------------------------------------------
(* DiffEngine: C10, under SpecDiff *)

RECURSIVE JsonEq(_, _)
\* structural identity of two JSON values: the same kind; equal scalars; lists
\* of one length equal position by position; dicts of the same keys equal key
\* by key
JsonEq(x, y) ==
    /\ x.t = y.t
    /\ CASE IsList(x) -> /\ Len(x.v) = Len(y.v)
                         /\ \A i \in 1..Len(x.v) : JsonEq(x.v[i], y.v[i])
         [] IsDict(x) -> /\ KeySet(x) = KeySet(y)
                         /\ \A k \in KeySet(x) : JsonEq(Item(x, k), Item(y, k))
         [] OTHER     -> x.v = y.v

=============================================================================
